---- MODULE Spec2Model ----
(***************************************************************************)
(* A model of the data generators of ecommerce-analytics-db                *)
(* (src/data/data_generators.py): the insert helper insert_batch and the   *)
(* cursor it drives, the shipment maker make_shipments, and the public     *)
(* generators generate_orders and generate_shipments.                      *)
(*                                                                         *)
(* Conventions.                                                            *)
(*  - A Python string on which the code computes (an order status, which   *)
(*    is lower-cased before it is compared) is the tuple of its code       *)
(*    points; a string that is only passed along is a TLA+ string.         *)
(*  - A datetime is an integer number of days; timedelta(days=k) adds k.   *)
(*  - random.randint / random.choice / random.sample are a choice over     *)
(*    every value the call can return.                                     *)
(*  - An API call is one action.  `call` records the latest call: its      *)
(*    operation, its arguments, the local value a claim speaks of, the     *)
(*    exception it raised ("none" when it returned) and its return value.  *)
(*    `writes` and `reads` record the execute_values and fetchall calls    *)
(*    that the latest API call made.                                       *)
(***************************************************************************)
EXTENDS Integers, Sequences, FiniteSets, TLC

VARIABLES
    psycopg2_execute_values, \* TRUE iff the import at lines 12-15 succeeded
    executemany_result,      \* what the driver's executemany leaves to fetch
    db,                      \* the tables, as the statements change them
    cur_result,              \* the result set pending on the cursor
    writes,                  \* execute_values calls of the latest API call
    reads,                   \* number of fetchall calls of the latest API call
    call,                    \* the latest API call
    ncalls                   \* number of API calls made so far

vars == <<psycopg2_execute_values, executemany_result, db, cur_result,
          writes, reads, call, ncalls>>

----------------------------------------------------------------------------
(* Bounds of the model.                                                    *)

MaxShipIn == 2      \* longest list of orders handed to make_shipments
MaxRows == 4        \* longest list of rows handed to insert_batch
MaxCalls == 2       \* API calls in one behaviour
MaxOrders == 1      \* largest number of orders asked of generate_orders
MaxCap == 1         \* largest cap n handed to generate_shipments
\* psycopg2's page_size, 100 by default and never set by the code, scaled
\* down so that a list of MaxRows rows spans several pages.
PageSize == 2

----------------------------------------------------------------------------
(* Strings the code computes on, as tuples of code points.                 *)

s_pending    == <<112, 101, 110, 100, 105, 110, 103>>
s_processing == <<112, 114, 111, 99, 101, 115, 115, 105, 110, 103>>
s_shipped    == <<115, 104, 105, 112, 112, 101, 100>>
s_delivered  == <<100, 101, 108, 105, 118, 101, 114, 101, 100>>
s_cancelled  == <<99, 97, 110, 99, 101, 108, 108, 101, 100>>
s_returned   == <<114, 101, 116, 117, 114, 110, 101, 100>>
s_in_transit == <<105, 110, 95, 116, 114, 97, 110, 115, 105, 116>>
\* "Delivered", a status in another letter case.
s_Delivered  == <<68, 101, 108, 105, 118, 101, 114, 101, 100>>

\* str.lower() on ASCII text: A-Z (65..90) map to a-z, the rest is kept.
lower(s) == [i \in DOMAIN s |-> IF s[i] \in 65..90 THEN s[i] + 32 ELSE s[i]]

\* make_orders_and_items: the list `statuses`.
statuses == <<s_pending, s_processing, s_shipped, s_delivered, s_cancelled,
              s_returned>>

\* make_shipments: the list `carriers`.
carriers == <<"UPS", "FedEx", "USPS", "DHL">>

Range(s) == {s[i] : i \in DOMAIN s}

None == [kind |-> "None", val |-> <<>>]
List(v) == [kind |-> "list", val |-> v]

\* No API call made yet.
Idle == [op |-> "none", args |-> <<>>, local |-> <<>>, exc |-> "none",
         ret |-> None]

----------------------------------------------------------------------------
(* The cursor and the database behind it.                                  *)
(*                                                                         *)
(* A cursor state cs is a record [db, cur_result, writes, reads].  db maps *)
(* a table to its rows in insertion order.  Customers, Products and Orders *)
(* rows are stored whole behind their generated key; of an Order_Items row *)
(* the table keeps (order_id, product_id, quantity), of a Reviews row      *)
(* (customer_id, product_id) and of a Shipments row order_id, the one      *)
(* column that is read again.                                              *)

Min(a, b) == IF a <= b THEN a ELSE b

\* get_sql_template (lines 20-38): the table an INSERT template writes to
TableOf(sql_key) ==
    CASE sql_key = "customers"   -> "Customers"
      [] sql_key = "products"    -> "Products"
      [] sql_key = "orders"      -> "Orders"
      [] sql_key = "order_items" -> "Order_Items"
      [] sql_key = "reviews"     -> "Reviews"
      [] sql_key = "shipments"   -> "Shipments"

\* get_sql_template: only the orders template ends in RETURNING order_id
HasReturning(sql_key) == sql_key = "orders"

\* The key the table's sequence gives its next row.
NextId(table) ==
    1 + (IF table = <<>> THEN 0
         ELSE CHOOSE m \in {table[i][1] : i \in DOMAIN table} :
                 \A i \in DOMAIN table : table[i][1] <= m)

Stored(sql_key, row, id) ==
    CASE sql_key = "customers"   -> <<id>> \o row
      [] sql_key = "products"    -> <<id>> \o row
      [] sql_key = "orders"      -> <<id>> \o row
      [] sql_key = "order_items" -> row
      [] sql_key = "reviews"     -> <<row[1], row[2]>>
      [] sql_key = "shipments"   -> <<row[1]>>

\* cur.execute of one multi-row INSERT: the rows enter the table and the
\* cursor holds what the statement returns, the generated keys in row order
\* for a RETURNING template and no result set otherwise.
execute_insert(cs, sql_key, rows) ==
    LET t    == TableOf(sql_key)
        base == NextId(cs.db[t]) - 1
        ids  == [i \in 1..Len(rows) |-> base + i]
        new  == [i \in 1..Len(rows) |-> Stored(sql_key, rows[i], ids[i])]
    IN [cs EXCEPT
          !.db = [cs.db EXCEPT ![t] = @ \o new],
          !.cur_result = IF HasReturning(sql_key)
                         THEN [has |-> TRUE, rows |-> ids]
                         ELSE [has |-> FALSE, rows |-> <<>>]]

\* psycopg2.extras.execute_values(cur, sql, argslist) as line 72 calls it,
\* with the default page_size and fetch=False: one cur.execute per page, so
\* afterwards the cursor holds the result of the last page only.
RECURSIVE psycopg2_pages(_, _, _)
psycopg2_pages(cs, sql_key, argslist) ==
    IF argslist = <<>> THEN cs
    ELSE LET n == Min(PageSize, Len(argslist)) IN
         psycopg2_pages(execute_insert(cs, sql_key, SubSeq(argslist, 1, n)),
                        sql_key,
                        SubSeq(argslist, n + 1, Len(argslist)))

\* cur.executemany(sql, argslist) (line 73): every row is inserted; which of
\* the returned rows stay on the cursor is left to the driver (DB-API 2.0).
executemany(cs, sql_key, argslist, kept) ==
    LET done == execute_insert(cs, sql_key, argslist)
        ids  == done.cur_result.rows
    IN IF ~done.cur_result.has \/ kept = "none"
       THEN [done EXCEPT !.cur_result = [has |-> FALSE, rows |-> <<>>]]
       ELSE IF kept = "last" /\ ids # <<>>
       THEN [done EXCEPT !.cur_result.rows = SubSeq(ids, Len(ids), Len(ids))]
       ELSE done

\* execute_values (lines 62-73)
execute_values(cs, sql_key, argslist, pg, kept) ==
    LET logged == [cs EXCEPT !.writes =
                      Append(@, [sql_key |-> sql_key, rows |-> argslist])]
    IN IF pg THEN psycopg2_pages(logged, sql_key, argslist)
       ELSE executemany(logged, sql_key, argslist, kept)

\* insert_batch (lines 299-319) past its guard: the write, then the read.
\* cur.fetchall() raises ProgrammingError when the cursor holds no result
\* set, and otherwise hands over the pending rows.
insert_batch_body(cs, sql_key, rows, return_ids, pg, kept) ==
    LET w == execute_values(cs, sql_key, rows, pg, kept) IN
    IF ~return_ids THEN [cs |-> w, exc |-> "none", ret |-> None]
    ELSE LET r == [w EXCEPT !.reads = @ + 1] IN
         IF ~w.cur_result.has
         THEN [cs |-> r, exc |-> "ProgrammingError", ret |-> None]
         ELSE [cs  |-> [r EXCEPT !.cur_result.rows = <<>>],
               exc |-> "none",
               ret |-> List(w.cur_result.rows)]

insert_batch_unguarded(cs, sql_key, rows, return_ids, pg, kept) ==
    insert_batch_body(cs, sql_key, rows, return_ids, pg, kept)

\* insert_batch (lines 299-319)
insert_batch(cs, sql_key, rows, return_ids, pg, kept) ==
    IF rows = <<>>
    THEN [cs |-> cs, exc |-> "none",
          ret |-> IF return_ids THEN List(<<>>) ELSE None]
    ELSE insert_batch_body(cs, sql_key, rows, return_ids, pg, kept)

\* The cursor as an API call finds it: the log of the previous call is gone.
Cursor == [db |-> db, cur_result |-> cur_result, writes |-> <<>>, reads |-> 0]

\* The cursor state cs becomes the state of the model.
Leave(cs) ==
    /\ db' = cs.db
    /\ cur_result' = cs.cur_result
    /\ writes' = cs.writes
    /\ reads' = cs.reads

\* The API call returns to its caller: its frame and its logs are dropped,
\* the database and the cursor stay as the call left them.
Return ==
    /\ call.op # "none" /\ call.exc # "pending"
    /\ call' = Idle
    /\ writes' = <<>>
    /\ reads' = 0
    /\ UNCHANGED <<psycopg2_execute_values, executemany_result, db,
                   cur_result, ncalls>>

EmptyDb == [Customers |-> <<>>, Products |-> <<>>, Orders |-> <<>>,
            Order_Items |-> <<>>, Reviews |-> <<>>, Shipments |-> <<>>]

----------------------------------------------------------------------------
(* insert_batch called on its own.  The rows are the first k of a list of  *)
(* pairwise distinct rows of the table: insert_batch never looks into a    *)
(* row.                                                                    *)

SampleRow(sql_key, i) ==
    IF sql_key = "orders"
    THEN <<1, 10 + i, statuses[((i - 1) % Len(statuses)) + 1]>>
    ELSE <<"first", "last", i, 0>>

SampleRows(sql_key, k) == [i \in 1..k |-> SampleRow(sql_key, i)]

InsertInit ==
    /\ psycopg2_execute_values \in BOOLEAN
    /\ executemany_result \in
          IF psycopg2_execute_values THEN {"none"} ELSE {"all", "last", "none"}
    /\ db = EmptyDb
    /\ cur_result = [has |-> FALSE, rows |-> <<>>]
    /\ writes = <<>>
    /\ reads = 0
    /\ ncalls = 0
    /\ call = Idle

InsertBatchCall ==
    /\ call = Idle /\ ncalls < MaxCalls
    /\ \E sql_key \in {"customers", "orders"}, k \in 0..MaxRows,
          return_ids \in BOOLEAN :
          LET rows == SampleRows(sql_key, k)
              out  == insert_batch(Cursor, sql_key, rows, return_ids,
                                   psycopg2_execute_values, executemany_result)
          IN /\ Leave(out.cs)
             /\ call' = [op |-> "insert_batch",
                         args |-> <<sql_key, rows, return_ids>>,
                         local |-> <<>>,
                         exc |-> out.exc, ret |-> out.ret]
    /\ ncalls' = ncalls + 1
    /\ UNCHANGED <<psycopg2_execute_values, executemany_result>>

InsertNext == InsertBatchCall \/ Return

SpecInsert == InsertInit /\ [][InsertNext]_vars

----------------------------------------------------------------------------
(* make_shipments (lines 269-294).                                         *)

\* line 283: random.randint(1, 3)
ShippedOffsetsFromZero == 0..3
ShippedOffsets == 1..3

\* line 284: random.randint(1, 7)
DeliveryOffsets == 1..7

\* line 282: the test that decides whether an order gets a shipment
QualifiesCaseSensitive(status) == status \in {s_shipped, s_delivered}
Qualifies(status) == lower(status) \in {s_shipped, s_delivered}

\* line 291: the status of the shipment
ShipmentStatus(status) ==
    IF lower(status) = s_delivered THEN s_delivered ELSE s_in_transit

\* lines 283-292: the rows one qualifying order can give, one per outcome of
\* the three random draws
ShipmentRows(order_id, order_date, status) ==
    { << order_id,
         order_date + so,
         (order_date + so) + do,
         carriers[c],
         ShipmentStatus(status) >> :
      so \in ShippedOffsets, do \in DeliveryOffsets, c \in DOMAIN carriers }

\* lines 281-293: the loop from entry i on, `acc` the lists `shipments` can
\* hold so far.  Unpacking an entry that is not a triple raises ValueError,
\* which nothing catches.
RECURSIVE make_shipments_loop(_, _, _)
make_shipments_loop(orders, i, acc) ==
    IF i > Len(orders) THEN [exc |-> "none", rets |-> acc]
    ELSE IF Len(orders[i]) # 3 THEN [exc |-> "ValueError", rets |-> {}]
    ELSE IF Qualifies(orders[i][3])
         THEN make_shipments_loop(orders, i + 1,
                  { Append(s, r) : s \in acc,
                    r \in ShipmentRows(orders[i][1], orders[i][2], orders[i][3]) })
         ELSE make_shipments_loop(orders, i + 1, acc)

\* The outcomes of make_shipments(orders): the exception, or the lists it can
\* return.
make_shipments(orders) == make_shipments_loop(orders, 1, {<<>>})

----------------------------------------------------------------------------
(* Inputs of make_shipments: lists of distinct entries of a catalogue of   *)
(* order records (order_id, order_date, status), in any order.  The        *)
(* catalogue holds two orders that qualify, one of them in another letter  *)
(* case than the code's own statuses, two that do not, and the malformed   *)
(* entry (2,) of test_make_shipments_skips_bad_tuples.                     *)

OrderCatalogue ==
    { <<1, 10, s_pending>>, <<2, 10, s_shipped>>, <<3, 20, s_Delivered>>,
      <<4, 20, s_cancelled>>, <<2>> }

IsInjective(s) == \A i, j \in DOMAIN s : s[i] = s[j] => i = j

ListsOf(S, n) ==
    UNION { { s \in [1..k -> S] : IsInjective(s) } : k \in 0..n }

MakeInit ==
    /\ psycopg2_execute_values = TRUE
    /\ executemany_result = "none"
    /\ db = EmptyDb
    /\ cur_result = [has |-> FALSE, rows |-> <<>>]
    /\ writes = <<>>
    /\ reads = 0
    /\ ncalls = 0
    /\ \E orders \in ListsOf(OrderCatalogue, MaxShipIn) :
          call = [op |-> "make_shipments", args |-> <<orders>>,
                  local |-> <<>>, exc |-> "pending", ret |-> None]

MakeShipmentsCall ==
    /\ call.op = "make_shipments" /\ call.exc = "pending"
    /\ LET out == make_shipments(call.args[1]) IN
          IF out.exc = "none"
          THEN \E r \in out.rets :
                  call' = [call EXCEPT !.exc = "none", !.ret = List(r)]
          ELSE call' = [call EXCEPT !.exc = out.exc]
    /\ ncalls' = ncalls + 1
    /\ UNCHANGED <<psycopg2_execute_values, executemany_result, db,
                   cur_result, writes, reads>>

MakeNext == MakeShipmentsCall

SpecMake == MakeInit /\ [][MakeNext]_vars

----------------------------------------------------------------------------
(* make_orders_and_items (lines 196-235) and generate_orders (346-367).    *)

\* line 212: the dates fake.date_time_between is let to return
OrderDates == {10}

\* lines 209-214: the lists `orders` can be
make_orders(customer_ids, n) ==
    [1..n -> { <<customer_ids[c], d, statuses[st]>> :
               c \in DOMAIN customer_ids, d \in OrderDates,
               st \in DOMAIN statuses }]

\* random.sample handing out the positions drawn instead of the elements
sample_positions(population, k) ==
    { g \in [1..k -> DOMAIN population] : IsInjective(g) }

\* line 230: random.sample(population, k), k distinct positions in any order
sample(population, k) ==
    { [i \in 1..k |-> population[f[i]]] :
      f \in { g \in [1..k -> DOMAIN population] : IsInjective(g) } }

\* line 232: random.randint(1, 5)
Quantities == 1..5

\* line 228 without the limit of 4
max_items_unlimited(product_ids) == Len(product_ids)

\* line 228: max_items = min(4, len(product_ids))
max_items(product_ids) == Min(4, Len(product_ids))

\* lines 228-232: the rows build_items can add for one order
items_of(product_ids, oid) ==
    UNION { { [i \in 1..k |-> <<oid, chosen[i], q[i]>>] :
              chosen \in sample(product_ids, k), q \in [1..k -> Quantities] } :
            k \in 1..max_items(product_ids) }

\* build_items (lines 216-233): the lists `items` can be
RECURSIVE build_items(_, _)
build_items(product_ids, order_ids) ==
    IF order_ids = <<>> THEN {<<>>}
    ELSE { first \o rest :
           first \in items_of(product_ids, Head(order_ids)),
           rest \in build_items(product_ids, Tail(order_ids)) }

\* lines 364-367 for one list of orders: the outcomes, each with the list
\* build_items returned in `local`
insert_orders_and_items(cs, product_ids, orders, pg, kept) ==
    LET first == insert_batch(cs, "orders", orders, TRUE, pg, kept) IN
    IF first.exc # "none"
    THEN {[cs |-> first.cs, local |-> <<>>, exc |-> first.exc, ret |-> None]}
    ELSE IF first.ret.val = <<>>
    THEN {[cs |-> first.cs, local |-> <<>>, exc |-> "none",
           ret |-> List(<<>>)]}
    ELSE { LET second == insert_batch(first.cs, "order_items", items, FALSE,
                                      pg, kept)
           IN [cs |-> second.cs, local |-> items, exc |-> second.exc,
               ret |-> IF second.exc = "none" THEN first.ret ELSE None] :
           items \in build_items(product_ids, first.ret.val) }

\* generate_orders with the check of the products made first
generate_orders_swapped(cs, customer_ids, product_ids, orders, pg, kept) ==
    IF product_ids = <<>>
    THEN {[cs |-> cs, local |-> <<>>, ret |-> None,
           exc |-> "Cannot generate orders: no products available."]}
    ELSE IF customer_ids = <<>>
    THEN {[cs |-> cs, local |-> <<>>, ret |-> None,
           exc |-> "Cannot generate orders: no customers available."]}
    ELSE insert_orders_and_items(cs, product_ids, orders, pg, kept)

\* generate_orders (lines 346-367): its outcomes when line 363 gets the list
\* `orders` from make_orders_and_items
generate_orders(cs, customer_ids, product_ids, orders, pg, kept) ==
    IF customer_ids = <<>>
    THEN {[cs |-> cs, local |-> <<>>, ret |-> None,
           exc |-> "Cannot generate orders: no customers available."]}
    ELSE IF product_ids = <<>>
    THEN {[cs |-> cs, local |-> <<>>, ret |-> None,
           exc |-> "Cannot generate orders: no products available."]}
    ELSE insert_orders_and_items(cs, product_ids, orders, pg, kept)

\* line 250: make_reviews, the list `adjectives`
adjectives == <<"great", "terrible", "excellent", "poor", "decent",
                "fantastic", "awful", "amazing">>

\* line 255 as random.randint(0, 5)
Ratings_from_zero == 0..5

\* line 255: random.randint(1, 5)
Ratings == 1..5

\* line 263: the dates fake.date_time_between is let to return
ReviewDates == {10}

\* make_reviews (lines 238-266): the lists it can return.  A comment is the
\* adjective drawn, followed by the sentence fake.sentence gave.
make_reviews(customer_ids, product_ids, n) ==
    [1..n -> { <<customer_ids[c], product_ids[p], r,
                 <<adjectives[a], "sentence">>, d>> :
               c \in DOMAIN customer_ids, p \in DOMAIN product_ids,
               r \in Ratings, a \in DOMAIN adjectives, d \in ReviewDates }]

\* generate_reviews (lines 370-384): its outcome when line 384 gets the list
\* `reviews` from make_reviews
generate_reviews(cs, customer_ids, product_ids, reviews, pg, kept) ==
    IF customer_ids = <<>>
    THEN {[cs |-> cs, local |-> <<>>, ret |-> None,
           exc |-> "Cannot generate reviews: no customers available."]}
    ELSE IF product_ids = <<>>
    THEN {[cs |-> cs, local |-> <<>>, ret |-> None,
           exc |-> "Cannot generate reviews: no products available."]}
    ELSE LET ins == insert_batch(cs, "reviews", reviews, FALSE, pg, kept)
         IN {[cs |-> ins.cs, local |-> <<>>, exc |-> ins.exc, ret |-> None]}

\* The identifier pools a caller hands over.  A pool is any list: nothing
\* keeps an identifier from occurring twice in it.
CustomerPools == {<<>>, <<1, 2>>}

\* The lists a maker can hand back to a generator that calls it with these
\* pools; a generator that finds a pool empty never calls its maker.
Made(rows, customer_ids, product_ids) ==
    IF customer_ids = <<>> \/ product_ids = <<>> THEN {<<>>} ELSE rows
ProductPools == {<<>>, <<7, 8>>, <<7, 7>>}

OrdersInit ==
    /\ psycopg2_execute_values \in BOOLEAN
    /\ executemany_result \in
          IF psycopg2_execute_values THEN {"none"} ELSE {"all", "last", "none"}
    /\ db = EmptyDb
    /\ cur_result = [has |-> FALSE, rows |-> <<>>]
    /\ writes = <<>>
    /\ reads = 0
    /\ ncalls = 0
    /\ \E customer_ids \in CustomerPools, product_ids \in ProductPools,
          n \in 0..MaxOrders, op \in {"generate_orders", "generate_reviews"} :
          call = [op |-> op,
                  args |-> <<customer_ids, product_ids, n>>,
                  local |-> <<>>, exc |-> "pending", ret |-> None]

GenerateOrdersCall ==
    /\ call.op = "generate_orders" /\ call.exc = "pending"
    /\ \E orders \in Made(make_orders(call.args[1], call.args[3]),
                          call.args[1], call.args[2]) :
       \E out \in generate_orders(Cursor, call.args[1], call.args[2], orders,
                                  psycopg2_execute_values,
                                  executemany_result) :
          /\ Leave(out.cs)
          /\ call' = [call EXCEPT !.local = out.local, !.exc = out.exc,
                                  !.ret = out.ret]
    /\ ncalls' = ncalls + 1
    /\ UNCHANGED <<psycopg2_execute_values, executemany_result>>

GenerateReviewsCall ==
    /\ call.op = "generate_reviews" /\ call.exc = "pending"
    /\ \E reviews \in Made(make_reviews(call.args[1], call.args[2],
                                         call.args[3]),
                           call.args[1], call.args[2]) :
       \E out \in generate_reviews(Cursor, call.args[1], call.args[2],
                                   reviews, psycopg2_execute_values,
                                   executemany_result) :
          /\ Leave(out.cs)
          /\ call' = [call EXCEPT !.local = out.local, !.exc = out.exc,
                                  !.ret = out.ret]
    /\ ncalls' = ncalls + 1
    /\ UNCHANGED <<psycopg2_execute_values, executemany_result>>

OrdersNext == GenerateOrdersCall \/ GenerateReviewsCall

SpecOrders == OrdersInit /\ [][OrdersNext]_vars

----------------------------------------------------------------------------
(* build_items (lines 216-233) called on its own, as a caller of           *)
(* make_orders_and_items may do with any list of order identifiers.        *)

MaxItemOrders == 2   \* longest list of order identifiers of the small pools

\* The order identifiers are a beginning of this list, in which an
\* identifier occurs twice.
OrderIdList == <<3, 3, 1, 2>>

\* A pool with more products than an order can have items.
LargePool == <<1, 2, 3, 4, 5>>

\* The calls: a small pool with up to MaxItemOrders order identifiers, the
\* large pool with at most one, and the empty pool.
ItemCalls ==
    { <<product_ids, SubSeq(OrderIdList, 1, k)>> :
      product_ids \in {<<>>, <<7>>, <<7, 8>>}, k \in 0..MaxItemOrders }
    \cup { <<LargePool, SubSeq(OrderIdList, 1, k)>> : k \in 0..1 }

ItemsInit ==
    /\ psycopg2_execute_values = TRUE
    /\ executemany_result = "none"
    /\ db = EmptyDb
    /\ cur_result = [has |-> FALSE, rows |-> <<>>]
    /\ writes = <<>>
    /\ reads = 0
    /\ ncalls = 0
    /\ \E a \in ItemCalls :
          call = [op |-> "build_items", args |-> a, local |-> <<>>,
                  exc |-> "pending", ret |-> None]

\* The order identifiers the loop of line 227 has yet to take, given that
\* `local` holds one list of rows for each one it took.
BuildItemsAt ==
    /\ call.op = "build_items" /\ call.exc = "pending"
    /\ Len(call.local) < Len(call.args[2])

\* lines 227-232: one turn of `for oid in order_ids`, for build_items of
\* make_orders_and_items(customer_ids, product_ids, n).  With an empty pool
\* line 229 is random.randint(1, 0), which raises ValueError.
BuildItemsLoop ==
    /\ BuildItemsAt
    /\ LET product_ids == call.args[1]
           oid == call.args[2][Len(call.local) + 1]
       IN IF product_ids = <<>>
          THEN call' = [call EXCEPT !.exc = "ValueError"]
          ELSE \E k \in 1..max_items(product_ids) :
               \E chosen \in sample(product_ids, k) :
               \E q \in [1..k -> Quantities] :
                  call' = [call EXCEPT !.local =
                     Append(@, [i \in 1..k |-> <<oid, chosen[i], q[i]>>])]
    /\ UNCHANGED <<psycopg2_execute_values, executemany_result, db,
                   cur_result, writes, reads, ncalls>>

RECURSIVE Concat(_)
Concat(lists) ==
    IF lists = <<>> THEN <<>> ELSE Head(lists) \o Concat(Tail(lists))

\* line 233: return items
BuildItemsReturn ==
    /\ call.op = "build_items" /\ call.exc = "pending"
    /\ Len(call.local) = Len(call.args[2])
    /\ call' = [call EXCEPT !.exc = "none", !.ret = List(Concat(call.local))]
    /\ ncalls' = ncalls + 1
    /\ UNCHANGED <<psycopg2_execute_values, executemany_result, db,
                   cur_result, writes, reads>>

ItemsNext == BuildItemsLoop \/ BuildItemsReturn

SpecItems == ItemsInit /\ [][ItemsNext]_vars

----------------------------------------------------------------------------
(* curate_orders_info (lines 111-130) and generate_shipments (387-403).    *)

\* SELECT order_id, order_date, status FROM Orders
select_orders_info(table) ==
    [i \in DOMAIN table |-> <<table[i][1], table[i][3], table[i][4]>>]

\* curate_orders_info(cur) without order_ids (lines 129-130): the SELECT,
\* then fetchall, which leaves the cursor read to its end
curate_orders_info(cs) ==
    [cs  |-> [cs EXCEPT !.cur_result = [has |-> TRUE, rows |-> <<>>],
                        !.reads = @ + 1],
     ret |-> select_orders_info(cs.db.Orders)]

Take(s, n) == SubSeq(s, 1, Min(n, Len(s)))

\* lines 400-402 with the cap applied to the orders instead
capped_before_derivation(orders_info, n) ==
    make_shipments(IF n # 0 THEN Take(orders_info, n) ELSE orders_info)

\* lines 400-402 with a cap of 0 keeping no shipment
capped_from_zero(orders_info, n) ==
    LET out == make_shipments(orders_info) IN
    IF out.exc = "none"
    THEN [out EXCEPT !.rets = {Take(s, n) : s \in out.rets}]
    ELSE out

\* lines 400-402: make_shipments, then the cap n on its result
capped_shipments(orders_info, n) ==
    LET out == make_shipments(orders_info) IN
    IF out.exc = "none" /\ n # 0
    THEN [out EXCEPT !.rets = {Take(s, n) : s \in out.rets}]
    ELSE out

\* generate_shipments without the check of lines 398-399
generate_shipments_unchecked(cs, orders_info, n, pg, kept) ==
    LET got  == IF orders_info = None THEN curate_orders_info(cs)
                ELSE [cs |-> cs, ret |-> orders_info.val]
        made == capped_shipments(got.ret, n)
    IN IF made.exc # "none"
       THEN {[cs |-> got.cs, local |-> got.ret, ret |-> None,
              exc |-> made.exc]}
       ELSE { LET ins == insert_batch(got.cs, "shipments", shipments, FALSE,
                                      pg, kept)
              IN [cs |-> ins.cs, local |-> got.ret, exc |-> ins.exc,
                  ret |-> None] :
              shipments \in made.rets }

\* generate_shipments (lines 387-403): its outcomes, each with the orders it
\* worked on in `local`.  orders_info is None or List(the list passed).
generate_shipments(cs, orders_info, n, pg, kept) ==
    LET got  == IF orders_info = None THEN curate_orders_info(cs)
                ELSE [cs |-> cs, ret |-> orders_info.val]
        made == capped_shipments(got.ret, n)
    IN IF got.ret = <<>>
       THEN {[cs |-> got.cs, local |-> got.ret, ret |-> None,
              exc |-> "Cannot generate shipments: no orders available."]}
       ELSE IF made.exc # "none"
       THEN {[cs |-> got.cs, local |-> got.ret, ret |-> None,
              exc |-> made.exc]}
       ELSE { LET ins == insert_batch(got.cs, "shipments", shipments, FALSE,
                                      pg, kept)
              IN [cs |-> ins.cs, local |-> got.ret, exc |-> ins.exc,
                  ret |-> None] :
              shipments \in made.rets }

\* An order record of the catalogue as the Orders table stores it.
OrderRow(o) == <<o[1], 1, o[2], o[3]>>

\* The Orders tables a run of generate_shipments starts from.
OrdersTables ==
    { <<>>,
      <<OrderRow(<<1, 10, s_pending>>)>>,
      <<OrderRow(<<2, 10, s_shipped>>)>>,
      <<OrderRow(<<1, 10, s_pending>>), OrderRow(<<2, 10, s_shipped>>),
        OrderRow(<<3, 20, s_Delivered>>)>>,
      <<OrderRow(<<3, 20, s_Delivered>>), OrderRow(<<4, 20, s_cancelled>>),
        OrderRow(<<2, 10, s_shipped>>)>> }

ShipInit ==
    /\ psycopg2_execute_values \in BOOLEAN
    /\ executemany_result = "none"
    /\ \E t \in OrdersTables : db = [EmptyDb EXCEPT !.Orders = t]
    /\ cur_result = [has |-> FALSE, rows |-> <<>>]
    /\ writes = <<>>
    /\ reads = 0
    /\ ncalls = 0
    /\ call = Idle

\* The orders_info a caller passes: nothing (the orders are read from the
\* table), an empty list, or a list of its own.
SuppliedOrders ==
    { None, List(<<>>),
      List(<< <<4, 20, s_cancelled>>, <<3, 20, s_Delivered>> >>) }

GenerateShipmentsCall ==
    /\ call = Idle /\ ncalls < MaxCalls
    /\ \E orders_info \in SuppliedOrders, n \in 0..MaxCap :
          \E out \in generate_shipments(Cursor, orders_info, n,
                                        psycopg2_execute_values,
                                        executemany_result) :
             /\ Leave(out.cs)
             /\ call' = [op |-> "generate_shipments",
                         args |-> <<orders_info, n>>,
                         local |-> out.local,
                         exc |-> out.exc, ret |-> out.ret]
    /\ ncalls' = ncalls + 1
    /\ UNCHANGED <<psycopg2_execute_values, executemany_result>>

ShipNext == GenerateShipmentsCall \/ Return

SpecShip == ShipInit /\ [][ShipNext]_vars

----------------------------------------------------------------------------
(* make_customers (lines 135-158) and make_products (lines 161-193).       *)

MaxCustomers == 2   \* largest number of rows asked of make_customers

\* What fake.first_name, fake.last_name and fake.free_email_domain are let
\* to return: "Ann" and "Bo", "Lee" and "Oz", "x.io" and "y.io".
FirstNames == { <<65, 110, 110>>, <<66, 111>> }
LastNames == { <<76, 101, 101>>, <<79, 122>> }
EmailDomains == { <<120, 46, 105, 111>>, <<121, 46, 105, 111>> }

\* line 155: the dates fake.date_time_between is let to return
CustomerDates == {10}

\* line 149: f"{first.lower()}.{last.lower()}@{fake.free_email_domain()}"
email_of(first, last, domain) ==
    lower(first) \o <<46>> \o lower(last) \o <<64>> \o domain

\* make_customers (lines 135-158): the lists it can return.  The loop asks
\* fake for two names, a domain and a date; it never asks fake.unique.
make_customers(n) ==
    [1..n -> { <<first, last, email_of(first, last, domain), d>> :
               first \in FirstNames, last \in LastNames,
               domain \in EmailDomains, d \in CustomerDates }]

\* lines 171-179: the price range of each category
categories ==
    [Electronics |-> <<50, 2000>>, Home |-> <<10, 500>>,
     Clothing |-> <<5, 150>>, Books |-> <<5, 50>>, Toys |-> <<5, 100>>,
     Sports |-> <<10, 300>>, Beauty |-> <<5, 100>>]

\* make_products (lines 161-193): the lists it can return, the price being
\* either end of the category's range
make_products(n) ==
    [1..n -> { <<"name", category, categories[category][e], 10>> :
               category \in DOMAIN categories, e \in 1..2 }]

\* What successive fake.unique.email() calls would do, had the code made
\* them: raise ("boom") or return "ok@example.com" ("ok").
EmailScripts == UNION { [1..k -> {"boom", "ok"}] : k \in 0..2 }

ok_email == <<111, 107, 64, 101, 120, 97, 109, 112, 108, 101, 46, 99, 111,
              109>>

CustomersInit ==
    /\ psycopg2_execute_values = TRUE
    /\ executemany_result = "none"
    /\ db = EmptyDb
    /\ cur_result = [has |-> FALSE, rows |-> <<>>]
    /\ writes = <<>>
    /\ reads = 0
    /\ ncalls = 0
    /\ \E n \in 0..MaxCustomers, script \in EmailScripts :
          call = [op |-> "make_customers", args |-> <<n, script>>,
                  local |-> [asked |-> 0, cleared |-> 0],
                  exc |-> "pending", ret |-> None]

\* make_customers(n) called with fake.unique.email patched to follow the
\* script: the code asks it nothing and clears nothing.
MakeCustomersCall ==
    /\ call.op = "make_customers" /\ call.exc = "pending"
    /\ \E customers \in make_customers(call.args[1]) :
          call' = [call EXCEPT !.exc = "none", !.ret = List(customers)]
    /\ ncalls' = ncalls + 1
    /\ UNCHANGED <<psycopg2_execute_values, executemany_result, db,
                   cur_result, writes, reads>>

CustomersNext == MakeCustomersCall

SpecCustomers == CustomersInit /\ [][CustomersNext]_vars

----------------------------------------------------------------------------
(* curate_ids (lines 78-108).                                              *)

Dict(v) == [kind |-> "dict", val |-> v]

EntityTypes == {"customers", "products", "orders"}

\* get_sql_select (lines 41-57): the table a SELECT template reads
SelectedTable(key) ==
    CASE key = "select_customers" -> "Customers"
      [] key = "select_products"  -> "Products"
      [] key = "select_orders"    -> "Orders"

\* cur.execute(get_sql_select(key)) followed by [r[0] for r in cur.fetchall()]
\* (lines 95-96, 100-101, 105-106).  The statement raises when its table is
\* among `failing` (a missing table, a lost connection); otherwise the keys
\* of the table are read, in row order, to the end of the result set.
select_ids(st, key, failing) ==
    LET table  == st.cs.db[SelectedTable(key)]
        issued == [st EXCEPT !.log = Append(@, key)]
    IN IF SelectedTable(key) \in failing
       THEN [issued EXCEPT !.exc = "db error"]
       ELSE [issued EXCEPT
               !.cs.cur_result = [has |-> TRUE, rows |-> <<>>],
               !.cs.reads = @ + 1,
               !.got = [i \in DOMAIN table |-> table[i][1]]]

\* line 90: all(cache.values())
all_values(cache) == \A t \in EntityTypes : cache.val[t] # <<>>

\* curate_ids with any() in place of all() at line 90
any_values(cache) == \E t \in EntityTypes : cache.val[t] # <<>>

\* lines 93-108 with the checks of lines 97 and 102 moved below the third
\* SELECT
fetch_ids_checks_last(cs, failing, checked) ==
    LET start == [cs |-> cs, log |-> <<>>, exc |-> "none", got |-> <<>>]
        c == select_ids(start, "select_customers", failing)
        p == select_ids(c, "select_products", failing)
        o == select_ids(p, "select_orders", failing)
        raised(st, e) == [cs |-> st.cs, log |-> st.log, exc |-> e, ret |-> None]
    IN IF c.exc # "none" THEN raised(c, c.exc)
       ELSE IF p.exc # "none" THEN raised(p, p.exc)
       ELSE IF o.exc # "none" THEN raised(o, o.exc)
       ELSE IF checked /\ c.got = <<>>
       THEN raised(o, "No customers found. Customers must be generated first.")
       ELSE IF checked /\ p.got = <<>>
       THEN raised(o, "No products found. Products must be generated first.")
       ELSE [cs |-> o.cs, log |-> o.log, exc |-> "none",
             ret |-> Dict([customers |-> c.got, products |-> p.got,
                           orders |-> o.got])]

\* lines 93-108: the three SELECTs, with the checks of lines 97 and 102 left
\* out when `checked` is FALSE
fetch_ids(cs, failing, checked) ==
    LET start == [cs |-> cs, log |-> <<>>, exc |-> "none", got |-> <<>>]
        c == select_ids(start, "select_customers", failing)
        p == select_ids(c, "select_products", failing)
        o == select_ids(p, "select_orders", failing)
        raised(st, e) == [cs |-> st.cs, log |-> st.log, exc |-> e, ret |-> None]
    IN IF c.exc # "none" THEN raised(c, c.exc)
       ELSE IF checked /\ c.got = <<>>
       THEN raised(c, "No customers found. Customers must be generated first.")
       ELSE IF p.exc # "none" THEN raised(p, p.exc)
       ELSE IF checked /\ p.got = <<>>
       THEN raised(p, "No products found. Products must be generated first.")
       ELSE IF o.exc # "none" THEN raised(o, o.exc)
       ELSE [cs |-> o.cs, log |-> o.log, exc |-> "none",
             ret |-> Dict([customers |-> c.got, products |-> p.got,
                           orders |-> o.got])]

curate_ids_any_cached(cs, cache, failing) ==
    IF cache # None /\ any_values(cache)
    THEN [cs |-> cs, log |-> <<>>, exc |-> "none", ret |-> cache]
    ELSE fetch_ids(cs, failing, TRUE)

curate_ids_unchecked(cs, cache, failing) ==
    IF cache # None /\ all_values(cache)
    THEN [cs |-> cs, log |-> <<>>, exc |-> "none", ret |-> cache]
    ELSE fetch_ids(cs, failing, FALSE)

\* curate_ids (lines 78-108): its outcome, with the SELECTs it issued in
\* `log`, when the statements on the tables in `failing` raise
curate_ids(cs, cache, failing) ==
    IF cache # None /\ all_values(cache)
    THEN [cs |-> cs, log |-> <<>>, exc |-> "none", ret |-> cache]
    ELSE fetch_ids(cs, failing, TRUE)

\* The caches a caller passes: none, or one with a list, possibly empty, for
\* each entity type.  The identifiers of a cache are not those of the tables.
Caches ==
    {None} \cup
    { Dict([customers |-> c, products |-> p, orders |-> o]) :
      c \in {<<>>, <<11>>}, p \in {<<>>, <<12, 13>>}, o \in {<<>>, <<14>>} }

\* The tables a curate_ids call finds.
CurateTables ==
    { [EmptyDb EXCEPT !.Customers = c, !.Products = p, !.Orders = o] :
      c \in {<<>>, [i \in 1..2 |-> <<i>> \o SampleRow("customers", i)]},
      p \in {<<>>, << <<1, "name", "Books", 5, 0>> >>},
      o \in {<<>>, <<OrderRow(<<1, 10, s_pending>>),
                     OrderRow(<<2, 10, s_shipped>>)>>} }

CurateInit ==
    /\ psycopg2_execute_values = TRUE
    /\ executemany_result = "none"
    /\ db \in CurateTables
    /\ cur_result = [has |-> FALSE, rows |-> <<>>]
    /\ writes = <<>>
    /\ reads = 0
    /\ ncalls = 0
    /\ \E cache \in Caches,
          failing \in {{}, {"Customers"}, {"Products"}, {"Orders"}} :
          call = [op |-> "curate_ids", args |-> <<cache, failing>>,
                  local |-> <<>>, exc |-> "pending", ret |-> None]

CurateIdsCall ==
    /\ call.op = "curate_ids" /\ call.exc = "pending"
    /\ LET out == curate_ids(Cursor, call.args[1], call.args[2]) IN
          /\ Leave(out.cs)
          /\ call' = [call EXCEPT !.local = out.log, !.exc = out.exc,
                                  !.ret = out.ret]
    /\ ncalls' = ncalls + 1
    /\ UNCHANGED <<psycopg2_execute_values, executemany_result>>

CurateNext == CurateIdsCall

SpecCurate == CurateInit /\ [][CurateNext]_vars

----------------------------------------------------------------------------
(* main_runner.py: main (lines 52-116) and sanity_check (lines 123-176),   *)
(* and the five generators of data_generators.py as a caller invokes them. *)
(* A call names its arguments by keyword; `cur` stands for the positional  *)
(* first argument.  The connection is a psycopg2 connection: leaving its   *)
(* `with` block commits, or rolls back when an exception leaves it.        *)

MaxOnly == 2    \* longest --only list
MaxCount == 1   \* largest count given to a generator

\* The stages with shipments reached first
Stages_shipments_first ==
    <<"shipments", "customers", "products", "orders", "reviews">>

\* main lines 84-102: the stages in the order main reaches them
Stages == <<"customers", "products", "orders", "reviews", "shipments">>

StageNames == Range(Stages)

\* The def lines of the generators (324, 335, 346, 370, 387)
Parameters(stage) ==
    CASE stage = "customers" -> {"cur", "n"}
      [] stage = "products"  -> {"cur", "n"}
      [] stage = "orders"    -> {"cur", "customer_ids", "product_ids", "n"}
      [] stage = "reviews"   -> {"cur", "customer_ids", "product_ids", "n"}
      [] stage = "shipments" -> {"cur", "orders_info", "n"}

\* line 387: the parameters that have a default value
Defaults(stage) ==
    IF stage = "shipments" THEN {"orders_info", "n"} ELSE {}

\* Python binding a call's arguments to the parameters of the function
bind(stage, keywords) ==
    IF /\ keywords \subseteq Parameters(stage)
       /\ (Parameters(stage) \ Defaults(stage)) \subseteq keywords
    THEN "none"
    ELSE "TypeError"

\* generate_customers (lines 324-332)
generate_customers(cs, n, pg, kept) ==
    { LET ins == insert_batch(cs, "customers", customers, FALSE, pg, kept)
      IN [cs |-> ins.cs, exc |-> ins.exc] :
      customers \in make_customers(n) }

\* generate_products (lines 335-343)
generate_products(cs, n, pg, kept) ==
    { LET ins == insert_batch(cs, "products", products, FALSE, pg, kept)
      IN [cs |-> ins.cs, exc |-> ins.exc] :
      products \in make_products(n) }

\* A call of a stage's generator with the arguments named in `keywords`,
\* their values in a: its outcomes.
invoke(cs, stage, keywords, a, pg, kept) ==
    IF bind(stage, keywords) # "none"
    THEN {[cs |-> cs, exc |-> "TypeError"]}
    ELSE CASE stage = "customers" -> generate_customers(cs, a.n, pg, kept)
           [] stage = "products" -> generate_products(cs, a.n, pg, kept)
           [] stage = "orders" ->
                UNION { { [cs |-> o.cs, exc |-> o.exc] :
                          o \in generate_orders(cs, a.customer_ids,
                                                a.product_ids, orders, pg,
                                                kept) } :
                        orders \in Made(make_orders(a.customer_ids, a.n),
                                        a.customer_ids, a.product_ids) }
           [] stage = "reviews" ->
                UNION { { [cs |-> o.cs, exc |-> o.exc] :
                          o \in generate_reviews(cs, a.customer_ids,
                                                 a.product_ids, reviews, pg,
                                                 kept) } :
                        reviews \in Made(make_reviews(a.customer_ids,
                                                      a.product_ids, a.n),
                                         a.customer_ids, a.product_ids) }
           [] stage = "shipments" ->
                { [cs |-> o.cs, exc |-> o.exc] :
                  o \in generate_shipments(cs, None,
                                           IF "n" \in keywords THEN a.n
                                           ELSE 0, pg, kept) }

\* main lines 86-102: the arguments main names in each generator call
MainKeywords == {"cur", "n", "report", "chunk_size"}

\* lines 141-145 and 84-100: do_all or (x in only)
will_gen(only_list, x) ==
    "all" \in Range(only_list) \/ x \in Range(only_list)

\* The checks of sanity_check without the one of lines 153-156
Dependencies_products_unchecked ==
    << [child |-> "orders", parent |-> "customers"],
       [child |-> "reviews", parent |-> "customers"],
       [child |-> "reviews", parent |-> "products"],
       [child |-> "shipments", parent |-> "orders"] >>

\* lines 147-174: the checks of sanity_check in the order it makes them
Dependencies ==
    << [child |-> "orders", parent |-> "customers"],
       [child |-> "orders", parent |-> "products"],
       [child |-> "reviews", parent |-> "customers"],
       [child |-> "reviews", parent |-> "products"],
       [child |-> "shipments", parent |-> "orders"] >>

\* sanity_check from its i-th check on.  table_count (lines 132-137) runs
\* SELECT COUNT(*) and gives 0 when the statement raises; the server then
\* refuses every later statement of the transaction.
RECURSIVE sanity_loop(_, _, _, _)
sanity_loop(st, only_list, failing, i) ==
    IF i > Len(Dependencies) THEN st
    ELSE LET d == Dependencies[i] IN
         IF will_gen(only_list, d.child) /\ ~will_gen(only_list, d.parent)
         THEN LET raises == TableOf(d.parent) \in failing \/ st.aborted
                  count == IF raises THEN 0
                           ELSE Len(st.cs.db[TableOf(d.parent)])
                  cs2 == [st.cs EXCEPT
                             !.reads = @ + 1,
                             !.cur_result = [has |-> ~raises, rows |-> <<>>]]
              IN sanity_loop(
                    [cs |-> cs2, aborted |-> raises,
                     problems |-> IF count <= 0
                                  THEN Append(st.problems, d)
                                  ELSE st.problems],
                    only_list, failing, i + 1)
         ELSE sanity_loop(st, only_list, failing, i + 1)

\* sanity_check (lines 123-176): a problem is named by its dependency
sanity_check(cs, only_list, failing) ==
    sanity_loop([cs |-> cs, aborted |-> FALSE, problems |-> <<>>],
                only_list, failing, 1)

\* lines 66-73
ZeroReport ==
    [customers |-> 0, products |-> 0, orders |-> 0, order_items |-> 0,
     reviews |-> 0, shipments |-> 0]

\* What --only can name: a dataset, "all", or a word that names none.
OnlyNames == StageNames \cup {"all", "none"}

OnlyLists ==
    UNION { {s \in [1..k -> OnlyNames] : IsInjective(s)} : k \in 1..MaxOnly }

\* The tables a run starts from.
RunTables ==
    { [EmptyDb EXCEPT !.Customers = c, !.Products = p, !.Orders = o] :
      c \in {<<>>, << <<1, <<65, 110, 110>>, <<76, 101, 101>>,
                      email_of(<<65, 110, 110>>, <<76, 101, 101>>,
                               <<120, 46, 105, 111>>), 10>> >>},
      p \in {<<>>, << <<1, "name", "Books", 5, 10>> >>},
      o \in {<<>>, <<OrderRow(<<1, 10, s_pending>>),
                     OrderRow(<<2, 10, s_shipped>>)>>} }

\* The arguments a caller of a generator names: the ones without a default,
\* n or not where it has one, and a report accumulator or not.
CallKeywords(stage) ==
    { (Parameters(stage) \ Defaults(stage)) \cup n \cup r :
      n \in {{"n"}} \cup (IF stage = "shipments" THEN {{}} ELSE {}),
      r \in {{}, {"report"}} }

\* A run of main: the command line (only, dry_run, sanity_check, the count
\* n of every dataset), whether main_runner.py runs as a script or main is
\* called from the imported module, and the tables that cannot be counted.
MainCalls ==
    { [op |-> "main",
       args |-> [only |-> only, dry_run |-> dry_run,
                 sanity_check |-> sanity, as_script |-> as_script, n |-> n,
                 failing |-> failing],
       local |-> [pc |-> "line78", invoked |-> <<>>, problems |-> <<>>,
                  conn |-> <<>>, txn |-> FALSE, error |-> "none",
                  committed |-> EmptyDb, report |-> ZeroReport],
       exc |-> "pending", ret |-> None] :
      only \in OnlyLists, dry_run \in BOOLEAN, sanity \in BOOLEAN,
      as_script \in BOOLEAN, n \in 0..MaxCount,
      failing \in {{}, {"Customers"}} }

\* A call of one generator.
GenerateCalls ==
    UNION { { [op |-> "generate",
               args |-> [stage |-> stage, keywords |-> keywords, n |-> n,
                         customer_ids |-> c, product_ids |-> p],
               local |-> [report |-> ZeroReport],
               exc |-> "pending", ret |-> None] :
              keywords \in CallKeywords(stage), n \in 0..MaxCount,
              c \in {<<>>, <<1>>}, p \in {<<>>, <<1>>} } :
            stage \in StageNames }

RunInit ==
    /\ psycopg2_execute_values = TRUE
    /\ executemany_result = "none"
    /\ db \in RunTables
    /\ cur_result = [has |-> FALSE, rows |-> <<>>]
    /\ writes = <<>>
    /\ reads = 0
    /\ ncalls = 0
    /\ \E c \in MainCalls \cup GenerateCalls :
          call = IF c.op = "main" THEN [c EXCEPT !.local.committed = db]
                 ELSE c

\* The cursor main opened at line 77, with the log of the run so far.
Cur == [db |-> db, cur_result |-> cur_result, writes |-> writes,
        reads |-> reads]

MainAt(pcs) ==
    call.op = "main" /\ call.exc = "pending" /\ call.local.pc \in pcs

\* lines 76-83: the sanity check.  The name sanity_check is bound at line
\* 123, after line 120 has called main when the file runs as a script.
MainSanityCheck ==
    /\ MainAt({"line78"})
    /\ IF ~call.args.sanity_check
       THEN /\ call' = [call EXCEPT !.local.pc = Stages[1]]
            /\ UNCHANGED <<db, cur_result, writes, reads>>
       ELSE IF call.args.as_script
       THEN /\ call' = [call EXCEPT !.local.pc = "raise",
                                    !.local.error = "NameError"]
            /\ UNCHANGED <<db, cur_result, writes, reads>>
       ELSE LET out == sanity_check(Cur, call.args.only, call.args.failing)
            IN /\ Leave(out.cs)
               /\ call' = [call EXCEPT
                     !.local.problems = out.problems,
                     !.local.txn = @ \/ out.cs.reads > reads,
                     !.local.pc = IF out.problems # <<>> THEN "exit"
                                  ELSE Stages[1]]
    /\ UNCHANGED <<psycopg2_execute_values, executemany_result, ncalls>>

\* The stage main reaches after `stage`, or line 104 after the last.
After(stage) ==
    LET i == CHOOSE j \in DOMAIN Stages : Stages[j] = stage IN
    IF i < Len(Stages) THEN Stages[i + 1] ELSE "line104"

\* lines 84-102: one `if do_all or ... in only` and the call below it
MainStage ==
    /\ MainAt(StageNames)
    /\ LET stage == call.local.pc IN
       IF will_gen(call.args.only, stage)
       THEN \E out \in invoke(Cur, stage, MainKeywords,
                              [n |-> call.args.n, customer_ids |-> <<>>,
                               product_ids |-> <<>>],
                              psycopg2_execute_values, executemany_result) :
               /\ Leave(out.cs)
               /\ call' = [call EXCEPT
                     !.local.invoked = Append(@, stage),
                     !.local.txn = \/ @
                                   \/ out.cs.reads > reads
                                   \/ Len(out.cs.writes) > Len(writes),
                     !.local.error = out.exc,
                     !.local.pc = IF out.exc = "none" THEN After(stage)
                                  ELSE "raise"]
       ELSE /\ call' = [call EXCEPT !.local.pc = After(stage)]
            /\ UNCHANGED <<db, cur_result, writes, reads>>
    /\ UNCHANGED <<psycopg2_execute_values, executemany_result, ncalls>>

\* An entry of the log of conn.commit() and conn.rollback() calls: `open`
\* tells whether a statement had run since the transaction last ended.
ConnCall(what, at) ==
    [what |-> what, at |-> at, open |-> call.local.txn]

\* lines 104-109 with the two branches exchanged
finish_swapped(dry_run) == IF dry_run THEN "commit" ELSE "rollback"

\* lines 104-109: what main asks of the connection
finish(dry_run) == IF dry_run THEN "rollback" ELSE "commit"

\* lines 104-109
MainFinish ==
    /\ MainAt({"line104"})
    /\ LET what == finish(call.args.dry_run) IN
          /\ call' = [call EXCEPT
                !.local.conn = Append(@, ConnCall(what, "line104")),
                !.local.txn = FALSE,
                !.local.committed = IF what = "commit" THEN db ELSE @,
                !.local.pc = "exit"]
          /\ db' = IF what = "commit" THEN db ELSE call.local.committed
    /\ UNCHANGED <<psycopg2_execute_values, executemany_result, cur_result,
                   writes, reads, ncalls>>

\* line 76: control leaves `with psycopg2.connect(...) as conn`, by the
\* return of line 83, by falling off line 109, or by an exception
MainExit ==
    /\ MainAt({"exit", "raise"})
    /\ LET what == IF call.local.pc = "raise" THEN "rollback" ELSE "commit"
       IN /\ call' = [call EXCEPT
                !.local.conn = Append(@, ConnCall(what, "exit")),
                !.local.txn = FALSE,
                !.local.committed = IF what = "commit" THEN db ELSE @,
                !.local.pc = "done",
                !.exc = call.local.error]
          /\ db' = IF what = "commit" THEN db ELSE call.local.committed
    /\ ncalls' = ncalls + 1
    /\ UNCHANGED <<psycopg2_execute_values, executemany_result, cur_result,
                   writes, reads>>

\* One generator called on a cursor.
GenerateCall ==
    /\ call.op = "generate" /\ call.exc = "pending"
    /\ \E out \in invoke(Cursor, call.args.stage, call.args.keywords,
                         call.args, psycopg2_execute_values,
                         executemany_result) :
          /\ Leave(out.cs)
          /\ call' = [call EXCEPT !.exc = out.exc]
    /\ ncalls' = ncalls + 1
    /\ UNCHANGED <<psycopg2_execute_values, executemany_result>>

RunNext ==
    MainSanityCheck \/ MainStage \/ MainFinish \/ MainExit \/ GenerateCall

SpecRun == RunInit /\ [][RunNext]_vars

----------------------------------------------------------------------------
(* The four makers called on their own: make_customers, make_products,     *)
(* make_orders_and_items (its list of orders) and make_reviews.            *)

MaxMade == 2   \* largest number of rows asked of a maker

Makers == {"make_customers", "make_products", "make_orders_and_items",
           "make_reviews"}

\* The pools random.choice draws from in a maker: lines 211, and 253-254.
\* random.choice of an empty list raises IndexError.
ChoicePools(maker, customer_ids, product_ids) ==
    CASE maker = "make_orders_and_items" -> {customer_ids}
      [] maker = "make_reviews" -> {customer_ids, product_ids}
      [] OTHER -> {}

\* The lists the maker can return.
made_by(maker, customer_ids, product_ids, n) ==
    CASE maker = "make_customers" -> make_customers(n)
      [] maker = "make_products" -> make_products(n)
      [] maker = "make_orders_and_items" -> make_orders(customer_ids, n)
      [] maker = "make_reviews" -> make_reviews(customer_ids, product_ids, n)

MakersInit ==
    /\ psycopg2_execute_values = TRUE
    /\ executemany_result = "none"
    /\ db = EmptyDb
    /\ cur_result = [has |-> FALSE, rows |-> <<>>]
    /\ writes = <<>>
    /\ reads = 0
    /\ ncalls = 0
    /\ \E maker \in Makers, n \in 0..MaxMade,
          c \in {<<>>, <<1>>, <<1, 2>>}, p \in {<<>>, <<7>>} :
          call = [op |-> "make",
                  args |-> [maker |-> maker, n |-> n, customer_ids |-> c,
                            product_ids |-> p],
                  local |-> <<>>, exc |-> "pending", ret |-> None]

\* One call of a maker.  The loop body is not entered for n = 0; otherwise
\* its first turn raises when a pool it draws from is empty.
MakerCall ==
    /\ call.op = "make" /\ call.exc = "pending"
    /\ LET a == call.args IN
       IF a.n >= 1 /\ <<>> \in ChoicePools(a.maker, a.customer_ids,
                                            a.product_ids)
       THEN call' = [call EXCEPT !.exc = "IndexError"]
       ELSE \E rows \in made_by(a.maker, a.customer_ids, a.product_ids, a.n) :
               call' = [call EXCEPT !.exc = "none", !.ret = List(rows)]
    /\ ncalls' = ncalls + 1
    /\ UNCHANGED <<psycopg2_execute_values, executemany_result, db,
                   cur_result, writes, reads>>

MakersNext == MakerCall

SpecMakers == MakersInit /\ [][MakersNext]_vars

----------------------------------------------------------------------------
(* The claims.                                                             *)

Ceil(k, c) == (k + c - 1) \div c

RECURSIVE Flatten(_)
Flatten(ws) == IF ws = <<>> THEN <<>> ELSE Head(ws).rows \o Flatten(Tail(ws))

IsInsertBatch == call.op = "insert_batch"

\* C1 (as claimed): for every chunk size c >= 1, insert_batch with k >= 1
\* rows issues exactly ceil(k / c) write calls, each of at most c rows, whose
\* rows in call order are the submitted rows.
C1_ChunkedWrites ==
    (IsInsertBatch /\ Len(call.args[2]) >= 1) =>
        \A c \in 1..MaxRows :
            /\ Len(writes) = Ceil(Len(call.args[2]), c)
            /\ \A i \in DOMAIN writes : Len(writes[i].rows) <= c
            /\ Flatten(writes) = call.args[2]

\* C2 (as claimed, for a cursor written through psycopg2's execute_values):
\* insert_batch with k orders rows and return_ids returns k identifiers, the
\* i-th being the key the database gave the i-th submitted row, whatever k;
\* without return_ids it returns None.
C2_ReturnsEveryId ==
    (IsInsertBatch /\ psycopg2_execute_values /\ call.args[1] = "orders") =>
        LET k == Len(call.args[2])
            n == Len(db.Orders)
        IN IF call.args[3]
           THEN /\ call.exc = "none"
                /\ call.ret.kind = "list"
                /\ Len(call.ret.val) = k
                /\ \A i \in 1..k : call.ret.val[i] = db.Orders[n - k + i][1]
           ELSE call.ret = None

\* C3: an insert_batch call with no rows issues no write and no read, leaves
\* the tables and the cursor as they were, and returns [] when identifiers
\* were asked for and None otherwise.
C3_EmptyIsNoOp ==
    [][ (call.op = "none" /\ call'.op = "insert_batch"
            /\ call'.args[2] = <<>>) =>
          /\ writes' = <<>>
          /\ reads' = 0
          /\ db' = db
          /\ cur_result' = cur_result
          /\ call'.exc = "none"
          /\ call'.ret = IF call'.args[3] THEN List(<<>>) ELSE None ]_vars

\* C3's case: an empty insert_batch asking for identifiers, made on a cursor
\* that still holds the unread keys of an earlier insert.
C3_Witness ==
    /\ IsInsertBatch /\ ncalls = 2
    /\ call.args[2] = <<>> /\ call.args[3]
    /\ call.ret = List(<<>>)
    /\ cur_result.has /\ cur_result.rows # <<>>
    /\ db.Orders # <<>>

\* Letter-case-insensitive equality with the lower-case text t.
SameLetters(st, t) ==
    /\ Len(st) = Len(t)
    /\ \A i \in DOMAIN st :
          st[i] = t[i] \/ (st[i] \in 65..90 /\ st[i] + 32 = t[i])

IsShipped(st) == SameLetters(st, s_shipped)
IsDelivered(st) == SameLetters(st, s_delivered)

\* The positions of the well-formed entries, and of those due a shipment.
Triples(orders) == {i \in DOMAIN orders : Len(orders[i]) = 3}
Due(orders) ==
    {i \in Triples(orders) : IsShipped(orders[i][3]) \/ IsDelivered(orders[i][3])}

\* The k-th smallest member of the set S of numbers.
Nth(S, k) == CHOOSE i \in S : Cardinality({j \in S : j < i}) = k - 1

MakeDone == call.op = "make_shipments" /\ call.exc # "pending"

\* C6: from a list of triples make_shipments returns, in input order, one
\* shipment for each triple whose status is 'shipped' or 'delivered' in any
\* letter case and none for the others; the shipment is 'delivered' for a
\* delivered order and 'in_transit' for a shipped one; so it returns no more
\* shipments than it was given orders.
C6_OneShipmentPerDueOrder ==
    (MakeDone /\ Triples(call.args[1]) = DOMAIN call.args[1]) =>
        /\ call.exc = "none"
        /\ LET orders == call.args[1]
               out    == call.ret.val
           IN /\ Len(out) = Cardinality(Due(orders))
              /\ Len(out) <= Len(orders)
              /\ \A k \in DOMAIN out :
                    LET o == orders[Nth(Due(orders), k)] IN
                    /\ out[k][1] = o[1]
                    /\ out[k][5] = IF IsDelivered(o[3]) THEN s_delivered
                                   ELSE s_in_transit

\* C6's case: a 'Delivered' order after one that is not due a shipment.
C6_Witness ==
    /\ MakeDone /\ call.exc = "none"
    /\ Len(call.args[1]) = 2
    /\ ~ (1 \in Due(call.args[1]))
    /\ call.args[1][2][3] = s_Delivered
    /\ Len(call.ret.val) = 1
    /\ call.ret.val[1][5] = s_delivered

\* C7: in days, a shipment's shipped date is its order's date plus 1, 2 or 3
\* and its delivery date is the shipped date plus 1 to 7.
C7_ShipmentDates ==
    (MakeDone /\ call.exc = "none") =>
        LET orders == call.args[1]
            out    == call.ret.val
        IN \A k \in DOMAIN out :
              LET o == orders[Nth(Due(orders), k)] IN
              /\ out[k][2] - o[2] \in 1..3
              /\ out[k][3] - out[k][2] \in 1..7
              /\ out[k][2] >= o[2]
              /\ out[k][3] > out[k][2]

\* C7's case: two shipments, one with the largest offsets and one with the
\* smallest.
C7_Witness ==
    /\ MakeDone /\ call.exc = "none"
    /\ Len(call.ret.val) = 2 /\ Len(call.args[1]) = 2
    /\ call.ret.val[1][2] = call.args[1][1][2] + 3
    /\ call.ret.val[1][3] = call.ret.val[1][2] + 7
    /\ call.ret.val[2][2] = call.args[1][2][2] + 1
    /\ call.ret.val[2][3] = call.ret.val[2][2] + 1

\* C10 (as claimed): when the list holds an entry that is not a triple,
\* make_shipments does not raise, skips the entry and returns the shipments
\* of the well-formed entries around it.
C10_MalformedSkipped ==
    (MakeDone /\ Triples(call.args[1]) # DOMAIN call.args[1]) =>
        /\ call.exc = "none"
        /\ LET orders == call.args[1]
               out    == call.ret.val
           IN /\ Len(out) = Cardinality(Due(orders))
              /\ \A k \in DOMAIN out : out[k][1] = orders[Nth(Due(orders), k)][1]

GenerateOrdersDone == call.op = "generate_orders" /\ call.exc # "pending"

\* C4 (as claimed): in every order-items write of generate_orders no two rows
\* share their (order identifier, product identifier) pair, whatever the
\* product pool, a pool that holds an identifier twice included.
C4_NoDuplicatePairs ==
    GenerateOrdersDone =>
        \A w \in DOMAIN writes :
            writes[w].sql_key = "order_items" =>
                \A i, j \in DOMAIN writes[w].rows :
                    LET a == writes[w].rows[i]
                        b == writes[w].rows[j]
                    IN (a[1] = b[1] /\ a[2] = b[2]) => i = j

\* The sum of the quantities the rows from position i on give the pair.
RECURSIVE QuantityOf(_, _, _)
QuantityOf(rows, pair, i) ==
    IF i > Len(rows) THEN 0
    ELSE (IF <<rows[i][1], rows[i][2]>> = pair THEN rows[i][3] ELSE 0)
         + QuantityOf(rows, pair, i + 1)

PairsOf(rows) == { <<rows[i][1], rows[i][2]>> : i \in DOMAIN rows }

\* C5 (as claimed): the rows handed to the order-items insert hold exactly
\* one row for each distinct (order, product) pair of the candidate rows
\* build_items drew, with the sum of the pair's candidate quantities, and
\* they are no more than the candidates.
C5_AggregatedItems ==
    (GenerateOrdersDone /\ call.local # <<>>) =>
        /\ Len(writes) = 2
        /\ writes[2].sql_key = "order_items"
        /\ LET candidates == call.local
               rows       == writes[2].rows
           IN /\ PairsOf(rows) = PairsOf(candidates)
              /\ Len(rows) = Cardinality(PairsOf(candidates))
              /\ Len(rows) <= Len(candidates)
              /\ \A i \in DOMAIN rows :
                    rows[i][3] = QuantityOf(candidates,
                                            <<rows[i][1], rows[i][2]>>, 1)

\* The number of Shipments rows of the order.
ShipmentsOf(order_id) ==
    Cardinality({ j \in DOMAIN db.Shipments : db.Shipments[j][1] = order_id })

\* C8 (as claimed): whatever generate_shipments calls were made, every order
\* of the Orders table has at most one Shipments row, and none when its
\* status is neither shipped nor delivered.
C8_AtMostOneShipment ==
    \A i \in DOMAIN db.Orders :
        LET o == db.Orders[i] IN
        /\ ShipmentsOf(o[1]) <= 1
        /\ ~ (IsShipped(o[4]) \/ IsDelivered(o[4])) => ShipmentsOf(o[1]) = 0

GenerateShipmentsDone == call.op = "generate_shipments" /\ call.exc = "none"

\* C9: generate_shipments with a cap n > 0 inserts, in one write and in input
\* order, the shipments of the first min(n, m) of the m orders that are due a
\* shipment among all the orders it worked on; these rows end the Shipments
\* table.
C9_CapAfterDerivation ==
    (GenerateShipmentsDone /\ call.args[2] > 0) =>
        LET orders == call.local
            due    == Due(orders)
            n      == call.args[2]
            rows   == Flatten(writes)
            kept   == Min(n, Cardinality(due))
            stored == Len(db.Shipments)
        IN /\ Len(rows) = kept
           /\ Len(writes) = (IF kept = 0 THEN 0 ELSE 1)
           /\ stored >= kept
           /\ \A k \in 1..kept :
                 /\ rows[k][1] = orders[Nth(due, k)][1]
                 /\ db.Shipments[stored - kept + k] = <<rows[k][1]>>

\* C9's case: a cap of 1 on orders read from the table, of which the first
\* is not due a shipment and two later ones are; the second order's shipment
\* is the one inserted.
C9_Witness ==
    /\ GenerateShipmentsDone
    /\ call.args = <<None, 1>>
    /\ Len(call.local) = 3
    /\ Due(call.local) = {2, 3}
    /\ Len(writes) = 1
    /\ Len(writes[1].rows) = 1
    /\ writes[1].rows[1][1] = call.local[2][1]
    /\ db.Shipments = <<<<call.local[2][1]>>>>

PoolCallDone ==
    call.op \in {"generate_orders", "generate_reviews"} /\ call.exc # "pending"

KeysOf(table) == { table[i][1] : i \in DOMAIN table }

\* C11: every Orders and Reviews row written carries a customer identifier of
\* the customer pool (and a Reviews row a product identifier of the product
\* pool); the order-items write follows the orders write, and each of its
\* rows carries an order identifier that the orders insert returned and that
\* is a key of the Orders table, and a product identifier of the pool.
C11_ForeignKeysResolved ==
    PoolCallDone =>
        LET customer_ids == Range(call.args[1])
            product_ids  == Range(call.args[2])
        IN \A w \in DOMAIN writes :
              LET rows == writes[w].rows
                  key  == writes[w].sql_key
              IN /\ key \in {"orders", "order_items", "reviews"}
                 /\ key = "orders" =>
                       \A i \in DOMAIN rows : rows[i][1] \in customer_ids
                 /\ key = "reviews" =>
                       \A i \in DOMAIN rows :
                          /\ rows[i][1] \in customer_ids
                          /\ rows[i][2] \in product_ids
                 /\ key = "order_items" =>
                       /\ w = 2 /\ writes[1].sql_key = "orders"
                       /\ call.ret.kind = "list"
                       /\ \A i \in DOMAIN rows :
                             /\ rows[i][1] \in Range(call.ret.val)
                             /\ rows[i][1] \in KeysOf(db.Orders)
                             /\ rows[i][2] \in product_ids

\* C11's case: an order and its item written, and (in another run) a review.
C11_Witness ==
    /\ call.op = "generate_orders" /\ call.exc = "none"
    /\ Len(writes) = 2
    /\ writes[2].sql_key = "order_items"
    /\ Len(writes[2].rows) = 2
    /\ writes[2].rows[1][2] # writes[2].rows[2][2]
    /\ db.Orders # <<>>

\* The message naming the pool a call with these pools lacks.
MissingDependency(op, customer_ids, product_ids) ==
    IF op = "generate_orders"
    THEN IF customer_ids = <<>>
         THEN "Cannot generate orders: no customers available."
         ELSE "Cannot generate orders: no products available."
    ELSE IF customer_ids = <<>>
         THEN "Cannot generate reviews: no customers available."
         ELSE "Cannot generate reviews: no products available."

\* C14: generate_orders and generate_reviews given an empty customer pool or
\* an empty product pool raise the error naming the missing pool, the
\* customers first when both are empty, and make no write nor read and leave
\* the tables as they were.
C14_EmptyPoolFails ==
    [][ (call.exc = "pending" /\ call'.exc # "pending"
            /\ (call.args[1] = <<>> \/ call.args[2] = <<>>)) =>
          /\ call'.exc = MissingDependency(call.op, call.args[1], call.args[2])
          /\ call'.ret = None
          /\ writes' = <<>>
          /\ reads' = 0
          /\ db' = db
          /\ cur_result' = cur_result ]_vars

\* C14's case: generate_orders asked for an order with both pools empty.
C14_Witness ==
    /\ call.op = "generate_orders"
    /\ call.args = << <<>>, <<>>, 1 >>
    /\ call.exc = "Cannot generate orders: no customers available."
    /\ writes = <<>>

CurateDone == call.op = "curate_ids" /\ call.exc # "pending"

SelectOf(t) ==
    CASE t = "customers" -> "select_customers"
      [] t = "products"  -> "select_products"
      [] t = "orders"    -> "select_orders"

TableIds(t) ==
    LET table == db[SelectedTable(SelectOf(t))]
    IN [i \in DOMAIN table |-> table[i][1]]

Fetches == call.args[1] = None \/ ~ all_values(call.args[1])

C20_RetryOnce ==
    (call.op = "make_customers" /\ call.exc # "pending"
        /\ call.args[1] >= 1 /\ Len(call.args[2]) = 2
        /\ call.args[2][1] = "boom") =>
        /\ call.local.cleared = 1
        /\ call.local.asked >= 2
        /\ IF call.args[2][2] = "ok"
           THEN /\ call.exc = "none"
                /\ Len(call.ret.val) = call.args[1]
                /\ call.ret.val[1][3] = ok_email
           ELSE /\ call.exc # "none"
                /\ call.local.asked = 2

\* The place of a stage in the order Customers, Products, Orders, Reviews,
\* Shipments.
Rank(stage) ==
    CASE stage = "customers" -> 1
      [] stage = "products"  -> 2
      [] stage = "orders"    -> 3
      [] stage = "reviews"   -> 4
      [] stage = "shipments" -> 5

IsMain == call.op = "main"

MainDone == IsMain /\ call.exc # "pending"

GenerateDone == call.op = "generate" /\ call.exc # "pending"

\* The call named the count and gave 0.
CountZero == "n" \in call.args.keywords /\ call.args.n = 0

\* C16 (as claimed): a stage that is not selected is not called by main, and
\* a generator called with a count of 0 writes no rows, for each of
\* customers, products, orders, reviews and shipments.
C16_SkippableStages ==
    /\ IsMain =>
          \A t \in StageNames :
             ~will_gen(call.args.only, t) =>
                \A i \in DOMAIN call.local.invoked : call.local.invoked[i] # t
    /\ (GenerateDone /\ CountZero) => writes = <<>>

\* The orders of the table that are due a shipment.
DueInTable ==
    {i \in DOMAIN db.Orders :
        IsShipped(db.Orders[i][4]) \/ IsDelivered(db.Orders[i][4])}

\* C16 (amended): a stage that is not selected is not called by main; a
\* generator of customers, products, orders or reviews called with a count
\* of 0 writes no rows; the shipments generator called with a count of 0
\* takes it as no limit and writes one shipment for every order of the table
\* that is due one.
C16_ZeroIsNoLimitForShipments ==
    /\ IsMain =>
          \A t \in StageNames :
             ~will_gen(call.args.only, t) =>
                \A i \in DOMAIN call.local.invoked : call.local.invoked[i] # t
    /\ (GenerateDone /\ CountZero /\ call.args.stage # "shipments") =>
          writes = <<>>
    /\ (GenerateDone /\ CountZero /\ call.args.stage = "shipments"
           /\ call.exc = "none") =>
          /\ Len(Flatten(writes)) = Cardinality(DueInTable)
          /\ \A w \in DOMAIN writes : writes[w].sql_key = "shipments"

\* C16's case: the shipments generator called with a count of 0 on a table
\* with an order that is due a shipment, which it writes.
C16_Witness ==
    /\ GenerateDone /\ CountZero
    /\ call.args.stage = "shipments" /\ call.exc = "none"
    /\ DueInTable # {}
    /\ Len(writes) = 1
    /\ db.Shipments # <<>>

\* The dependencies a run violates: the child will be generated, the parent
\* will not, and the parent's table is empty or cannot be counted.
Violated ==
    {d \in Range(Dependencies) :
        /\ will_gen(call.args.only, d.child)
        /\ ~will_gen(call.args.only, d.parent)
        /\ \/ db[TableOf(d.parent)] = <<>>
           \/ TableOf(d.parent) \in call.args.failing}

\* C17 (as claimed): in a run of main with --sanity-check that violates a
\* dependency, no generator is ever called and nothing is inserted, and when
\* the run has ended the problems reported hold one entry for every violated
\* dependency.
C17_SanityAbort ==
    (IsMain /\ call.args.sanity_check /\ Violated # {}) =>
        /\ call.local.invoked = <<>>
        /\ writes = <<>>
        /\ MainDone =>
              \A d \in Violated :
                 \E i \in DOMAIN call.local.problems :
                    call.local.problems[i] = d

\* The commit calls of the run that found a transaction to end.
Commits ==
    {i \in DOMAIN call.local.conn :
        call.local.conn[i].what = "commit" /\ call.local.conn[i].open}

\* Every selected stage has been called and none raised.
StagesFinished ==
    /\ call.local.error = "none"
    /\ \A t \in StageNames :
          will_gen(call.args.only, t) =>
             \E i \in DOMAIN call.local.invoked : call.local.invoked[i] = t

RECURSIVE Written(_, _)
Written(ws, sql_key) ==
    IF ws = <<>> THEN 0
    ELSE (IF Head(ws).sql_key = sql_key THEN Len(Head(ws).rows) ELSE 0)
         + Written(Tail(ws), sql_key)

\* The call handed a report accumulator to a generator and asked it for at
\* least one row.
ReportSupplied ==
    \/ /\ GenerateDone /\ "report" \in call.args.keywords
       /\ call.args.stage \in {"customers", "products"}
       /\ call.args.n >= 1
    \/ /\ MainDone /\ call.local.invoked # <<>>
       /\ call.args.n >= 1

\* C19 (as claimed): a generator can be handed a report accumulator, and
\* after its batch inserts the counter of every entity type equals the
\* number of rows written for that type (so the counters of the other types
\* are untouched).
C19_ReportCountsRows ==
    ReportSupplied =>
        /\ call.exc # "TypeError"
        /\ \A k \in DOMAIN call.local.report :
              call.local.report[k] = Written(writes, k)

\* The list items is, for each identifier of order_ids in turn, between 1
\* and 4 rows that carry the identifier, a product of the pool and a
\* quantity in 1..5.
RECURSIVE RowsPerOrder(_, _, _)
RowsPerOrder(items, order_ids, pool) ==
    IF order_ids = <<>> THEN items = <<>>
    ELSE \E k \in 1..4 :
            /\ k <= Len(items)
            /\ \A i \in 1..k :
                  /\ Len(items[i]) = 3
                  /\ items[i][1] = Head(order_ids)
                  /\ items[i][2] \in pool
                  /\ items[i][3] \in 1..5
            /\ RowsPerOrder(SubSeq(items, k + 1, Len(items)),
                            Tail(order_ids), pool)

BuildItemsDone == call.op = "build_items" /\ call.exc # "pending"

MakerDone == call.op = "make" /\ call.exc # "pending"

\* C22: for every n >= 0, and non-empty pools of the parent identifiers a
\* maker draws from, make_customers, make_products, make_orders_and_items
\* (its list of orders) and make_reviews return exactly n rows (none for
\* n = 0); every rating of a review is in 1..5 and every status of an order
\* is one of pending, processing, shipped, delivered, cancelled, returned.
C22_ExactlyNRows ==
    (MakerDone /\ <<>> \notin ChoicePools(call.args.maker,
                                          call.args.customer_ids,
                                          call.args.product_ids)) =>
        /\ call.exc = "none"
        /\ Len(call.ret.val) = call.args.n
        /\ call.args.maker = "make_reviews" =>
              \A i \in DOMAIN call.ret.val :
                 call.ret.val[i][3] \in {1, 2, 3, 4, 5}
        /\ call.args.maker = "make_orders_and_items" =>
              \A i \in DOMAIN call.ret.val :
                 call.ret.val[i][3] \in
                    {s_pending, s_processing, s_shipped, s_delivered,
                     s_cancelled, s_returned}

\* C22's case: two reviews asked for and returned, with the ratings 1 and 5.
C22_Witness ==
    /\ MakerDone /\ call.exc = "none"
    /\ call.args.maker = "make_reviews" /\ call.args.n = 2
    /\ Len(call.ret.val) = 2
    /\ call.ret.val[1][3] = 1 /\ call.ret.val[2][3] = 5

\* A call of generate_shipments that had no order records: it was given an
\* empty list, or it was given none and the Orders table is empty.
NoOrdersAvailable ==
    /\ call.op = "generate_shipments" /\ call.exc # "pending"
    /\ \/ call.args[1] = List(<<>>)
       \/ call.args[1] = None /\ db.Orders = <<>>

ReturnsNone(t) ==
    /\ SelectedTable(SelectOf(t)) \notin call.args[2]
    /\ db[SelectedTable(SelectOf(t))] = <<>>

\* The SELECT of an entity type was answered, with a row at least.
ReturnsSome(t) ==
    /\ SelectedTable(SelectOf(t)) \notin call.args[2]
    /\ db[SelectedTable(SelectOf(t))] # <<>>

\* C24: when curate_ids has no usable cache, a Customers SELECT that returns
\* no identifiers makes it raise with no SELECT issued on Products or Orders;
\* after customers were found, a Products SELECT that returns none makes it
\* raise; after customers and products were found, an Orders SELECT that
\* returns none does not make it raise, and the orders returned are the
\* empty list.
C24_ParentsRequiredOrdersOptional ==
    (CurateDone /\ Fetches) =>
        /\ ReturnsNone("customers") =>
              /\ call.exc =
                    "No customers found. Customers must be generated first."
              /\ call.local = <<"select_customers">>
              /\ reads = 1
        /\ (ReturnsSome("customers") /\ ReturnsNone("products")) =>
              /\ call.exc =
                    "No products found. Products must be generated first."
              /\ "select_orders" \notin Range(call.local)
        /\ (ReturnsSome("customers") /\ ReturnsSome("products")
               /\ ReturnsNone("orders")) =>
              /\ call.exc = "none"
              /\ call.ret.kind = "dict"
              /\ call.ret.val.orders = <<>>
              /\ call.ret.val.customers # <<>>
              /\ call.ret.val.products # <<>>

\* C24's case: no cache, customers and products found, and the empty Orders
\* table returned as the empty list after three SELECTs.
C24_Witness ==
    /\ CurateDone /\ call.args[1] = None /\ call.args[2] = {}
    /\ db.Customers # <<>> /\ db.Products # <<>> /\ db.Orders = <<>>
    /\ call.exc = "none"
    /\ call.ret.val.orders = <<>>
    /\ Len(call.local) = 3

\* The sanity check of a run of main was asked for, is over, and reported no
\* problem.
SanityPassed ==
    /\ IsMain /\ call.args.sanity_check
    /\ call.local.pc # "line78"
    /\ call.local.problems = <<>>

\* What a generator or curate_ids raises for want of parent rows.
MissingParentErrors ==
    {"Cannot generate orders: no customers available.",
     "Cannot generate orders: no products available.",
     "Cannot generate reviews: no customers available.",
     "Cannot generate reviews: no products available.",
     "Cannot generate shipments: no orders available.",
     "No customers found. Customers must be generated first.",
     "No products found. Products must be generated first."}

====
